---- MODULE Spec2Model ----
(***************************************************************************)
(* Model of src/doc/utils.py: the docstring-convention parser              *)
(* (parse_see_also, parse_docstring), the document model builder           *)
(* (make_docs_dict), the edge generator and graph builder (generate_edges, *)
(* make_graph), the position builder (generate_positions,                  *)
(* make_positions_dict) and the plotter (plot_graph).                      *)
(*                                                                         *)
(* Text is modelled as a sequence of tokens.  A token is a string that the *)
(* code treats as a unit: the literals it searches for ('See Also',        *)
(* 'CALLS', 'CALLED_BY', 'RELATED'), the separators it splits on ('\n',    *)
(* ':', ','), the characters it strips or deletes (blank, the three quote  *)
(* characters, the braces) and words.  A string is the concatenation of    *)
(* its tokens.                                                             *)
(***************************************************************************)
EXTENDS Integers, Sequences, FiniteSets, TLC

VARIABLES
    entry_point,     \* the function the caller invoked first
    pc,              \* position of the program: which function runs / has returned
    error,           \* the exception that ended the run, or "none"
    docstring,       \* parse_docstring: its argument (token sequence or None)
    lines,           \* parse_docstring: local `lines`, the lines not yet visited
    catch_calls,     \* parse_docstring: local flag
    catch_called_by, \* parse_docstring: local flag
    catch_related,   \* parse_docstring: local flag
    yielded,         \* parse_docstring: the (field, value) pairs yielded so far
    tree,            \* make_docs_dict: the parsed file (module docstring, FunctionDef nodes)
    dobj,            \* the document model (docs_dict)
    edges,           \* make_graph: the edges consumed from generate_edges, in order
    graph,           \* make_graph: the MultiDiGraph (nodes, list of edges)
    positions_df,    \* make_positions_dict: the table after the fill of lines 376-381
    positions_dict,  \* make_positions_dict: the returned mapping
    plot_args,       \* plot_graph: its arguments
    events           \* plot_graph: the backend calls made, in order

vars == <<entry_point, pc, error, docstring, lines, catch_calls, catch_called_by, catch_related,
          yielded, tree, dobj, edges, graph, positions_df, positions_dict,
          plot_args, events>>

(***************************************************************************)
(* Bounds of the model.                                                    *)
(***************************************************************************)
MaxLines == 4          \* lines of a docstring given to parse_docstring alone
MaxFields == 2         \* relationship fields declared in a document model
MaxLineno == 2         \* greatest declared line number
MaxColOffset == 1      \* greatest declared column offset
MaxFunctionDefs == 2   \* FunctionDef nodes in a parsed file

(***************************************************************************)
(* Python values.                                                          *)
(***************************************************************************)
\* Python's None where a token sequence is expected (a docstring).
None == <<"<None>">>

\* Truth value of a flag (None, True or False) in `elif catch_x and ...`:
\* None and False are falsy.
Truthy(v) == v = "True"

(***************************************************************************)
(* String operations on token sequences.                                   *)
(***************************************************************************)
\* `tok in s` for one of the literals the code searches for.
Contains(s, tok) == \E i \in DOMAIN s : s[i] = tok

\* Index of the first occurrence of tok in s (s contains tok).
FirstIndex(s, tok) == CHOOSE i \in DOMAIN s : s[i] = tok /\ \A j \in 1..(i - 1) : s[j] # tok

\* str.split(sep): the segments between the separators, empty ones included.
RECURSIVE Split(_, _)
Split(s, sep) ==
    IF ~Contains(s, sep) THEN <<s>>
    ELSE LET i == FirstIndex(s, sep)
         IN  <<SubSeq(s, 1, i - 1)>> \o Split(SubSeq(s, i + 1, Len(s)), sep)

\* str.strip(): leading and trailing whitespace removed.
RECURSIVE Strip(_)
Strip(s) ==
    IF s = <<>> THEN s
    ELSE IF Head(s) = " " THEN Strip(Tail(s))
    ELSE IF s[Len(s)] = " " THEN Strip(SubSeq(s, 1, Len(s) - 1))
    ELSE s

\* str.replace(ch, ''): every occurrence of ch deleted.
Remove(s, ch) == SelectSeq(s, LAMBDA t : t # ch)

\* The Python string a token sequence stands for.
RECURSIVE Text(_)
Text(s) == IF s = <<>> THEN "" ELSE Head(s) \o Text(Tail(s))

\* The elements of a list, as a set: set(list).
Range(s) == {s[i] : i \in DOMAIN s}

(***************************************************************************)
(* parse_see_also                                                          *)
(***************************************************************************)
\* line.split(':')[1] raises IndexError when the line has no colon.
parse_see_also_raises(line) == Len(Split(line, ":")) < 2

\* The tokens standing for the three quote characters deleted from each
\* element (line 68): backtick, single quote, double quote.
Backtick == "<backtick>"
Apostrophe == "<apostrophe>"
DoubleQuote == "<doublequote>"

\* One element of the comma-separated list, cleaned (lines 68-69).
clean_elt(elt) ==
    Remove(Remove(Remove(Remove(Remove(Strip(elt), Backtick), Apostrophe), DoubleQuote),
                  "{"), "}")

parse_see_also(line) ==
    LET field == Strip(Split(line, ":")[2])
        elts  == Split(field, ",")
    IN  {Text(clean_elt(elts[i])) : i \in DOMAIN elts}

(***************************************************************************)
(* parse_docstring                                                         *)
(***************************************************************************)
FieldNames == {"CALLS", "CALLED_BY", "RELATED"}

\* The generator's locals between two iterations of `for line in lines`.
\* raised is TRUE when parse_see_also raised in the last iteration.
gen_state(cc, ccb, cr, ys, r) ==
    [catch_calls |-> cc, catch_called_by |-> ccb, catch_related |-> cr,
     yielded |-> ys, raised |-> r]

\* One iteration of the loop body (lines 111-129) on `line`.
loop_body(g, line) ==
    IF Contains(line, "See Also")
    THEN gen_state("True", "True", "True", g.yielded, FALSE)
    ELSE IF Truthy(g.catch_calls) /\ Contains(line, "CALLS")
    THEN IF parse_see_also_raises(line)
         THEN gen_state("False", g.catch_called_by, g.catch_related, g.yielded, TRUE)
         ELSE gen_state("False", g.catch_called_by, g.catch_related,
                        Append(g.yielded, <<"CALLS", parse_see_also(line)>>), FALSE)
    ELSE IF Truthy(g.catch_called_by) /\ Contains(line, "CALLED_BY")
    THEN IF parse_see_also_raises(line)
         THEN gen_state(g.catch_calls, "False", g.catch_related, g.yielded, TRUE)
         ELSE gen_state(g.catch_calls, "False", g.catch_related,
                        Append(g.yielded, <<"CALLED_BY", parse_see_also(line)>>), FALSE)
    ELSE IF Truthy(g.catch_related) /\ Contains(line, "RELATED")
    THEN IF parse_see_also_raises(line)
         THEN gen_state(g.catch_calls, g.catch_called_by, "False", g.yielded, TRUE)
         ELSE gen_state(g.catch_calls, g.catch_called_by, "False",
                        Append(g.yielded, <<"RELATED", parse_see_also(line)>>), FALSE)
    ELSE gen_state(g.catch_calls, g.catch_called_by, g.catch_related, g.yielded, FALSE)

\* The remaining iterations of the loop, run to the end or to the first raise.
RECURSIVE run_loop(_, _)
run_loop(g, ls) ==
    IF g.raised \/ ls = <<>> THEN g
    ELSE run_loop(loop_body(g, Head(ls)), Tail(ls))

\* parse_docstring consumed to exhaustion, as `for ... in parse_docstring(d)`
\* does: the pairs yielded and the exception raised, if any.
parse_docstring(d) ==
    IF d = None
    THEN [yielded |-> <<>>, error |-> "AttributeError"]
    ELSE LET g == run_loop(gen_state("None", "None", "None", <<>>, FALSE), Split(d, "\n"))
         IN  [yielded |-> g.yielded, error |-> IF g.raised THEN "IndexError" ELSE "none"]

(***************************************************************************)
(* Python values of mixed type, as held in the document model.  The tag    *)
(* is what isinstance() and the key tests of the traversals look at.       *)
(***************************************************************************)
DictV(m) == [type |-> "dict", val |-> m]
SetV(s)  == [type |-> "set", val |-> s]
IntV(n)  == [type |-> "int", val |-> n]
StrV(s)  == [type |-> IF s = None THEN "NoneType" ELSE "str", val |-> s]

\* isinstance(v, dict)
isinstance_dict(v) == v.type = "dict"

\* d[k] = v on a dict d (a function from keys to values).
Put(d, k, v) == [x \in (DOMAIN d) \cup {k} |-> IF x = k THEN v ELSE d[x]]

\* The empty dict {}.
EmptyDict == [x \in {} |-> 0]

\* All orders in which iterating over the set S can visit its elements.
Perms(S) ==
    {p \in [1..Cardinality(S) -> S] : \A i, j \in 1..Cardinality(S) : i # j => p[i] # p[j]}

(***************************************************************************)
(* Keys of the document model and their order under sorted().              *)
(***************************************************************************)
\* Names of the functions a file may define.  They differ from the keys the
\* model reserves (docstring, lineno, col_offset, CALLS, CALLED_BY, RELATED);
\* Main sorts between the upper-case field names, f after the lower-case keys.
FunctionNames == {"Main", "f"}

\* Every key a document model may hold, in the order sorted() gives them:
\* Python compares strings by code point, upper case before lower case.
KeyOrder ==
    <<"CALLED_BY", "CALLS", "Main", "RELATED", "col_offset", "docstring", "f", "lineno">>

\* Mutant of sorted_keys: the keys taken in descending order.
sorted_keys_descending(d) ==
    LET ks == SelectSeq(KeyOrder, LAMBDA k : k \in DOMAIN d)
    IN  [i \in DOMAIN ks |-> ks[Len(ks) + 1 - i]]

\* sorted(dobj)
sorted_keys(d) == SelectSeq(KeyOrder, LAMBDA k : k \in DOMAIN d)

(***************************************************************************)
(* generate_edges                                                          *)
(***************************************************************************)
\* Concatenations of one sequence of A followed by one of B.
Concat(A, B) == {a \o b : a \in A, b \in B}

\* The edge sequences generate_edges(dobj, parent) can yield; they differ
\* only in the order in which each set of targets is iterated (line 244).
\* edges_of_keys handles the keys still to visit, in order.
RECURSIVE edges_of_keys(_, _, _)
edges_of_keys(d, parent, keys) ==
    IF keys = <<>> THEN {<<>>}
    ELSE LET key  == Head(keys)
             rest == edges_of_keys(d, parent, Tail(keys))
         IN  IF key = "docstring" THEN rest
             ELSE IF key \in {"CALLS", "CALLED_BY", "RELATED"}
             THEN Concat({[i \in DOMAIN p |-> <<parent, p[i], key>>] : p \in Perms(d[key].val)},
                         rest)
             ELSE IF isinstance_dict(d[key])
             THEN Concat({<< <<parent, key, "CONTAINS">> >>},
                         Concat(edges_of_keys(d[key].val, key, sorted_keys(d[key].val)), rest))
             ELSE rest

generate_edges(d, parent) == edges_of_keys(d, parent, sorted_keys(d))

(***************************************************************************)
(* make_graph                                                              *)
(***************************************************************************)
\* networkx.MultiDiGraph: a node set and the list of edges (parallel edges
\* and self-loops allowed), each edge with its relationship attribute.
EmptyGraph == [nodes |-> {}, edges |-> <<>>]

\* graph.add_edge(node1, node2, attr_dict): adds both end nodes.
add_edge(g, e) == [nodes |-> g.nodes \cup {e[1], e[2]}, edges |-> Append(g.edges, e)]

RECURSIVE add_edges(_, _)
add_edges(g, es) == IF es = <<>> THEN g ELSE add_edges(add_edge(g, Head(es)), Tail(es))

\* graph.remove_node(n) raises NetworkXError when n is not in the graph.
remove_node_raises(g, n) == n \notin g.nodes

\* Mutant of remove_node: the edges are removed, the node is left behind.
remove_node_keeps_node(g, n) ==
    [nodes |-> g.nodes,
     edges |-> SelectSeq(g.edges, LAMBDA e : e[1] # n /\ e[2] # n)]

\* graph.remove_node(n): the node and every edge touching it are removed.
remove_node(g, n) ==
    [nodes |-> g.nodes \ {n},
     edges |-> SelectSeq(g.edges, LAMBDA e : e[1] # n /\ e[2] # n)]

(***************************************************************************)
(* generate_positions                                                      *)
(***************************************************************************)
\* The (node, attr, value) triples generate_positions(dobj, parent) yields.
RECURSIVE positions_of_keys(_, _, _)
positions_of_keys(d, parent, keys) ==
    IF keys = <<>> THEN <<>>
    ELSE LET key  == Head(keys)
             rest == positions_of_keys(d, parent, Tail(keys))
         IN  IF key = "lineno" THEN << <<parent, "lineno", d[key].val>> >> \o rest
             ELSE IF key = "col_offset" THEN << <<parent, "col_offset", d[key].val>> >> \o rest
             ELSE IF isinstance_dict(d[key])
             THEN positions_of_keys(d[key].val, key, sorted_keys(d[key].val)) \o rest
             ELSE rest

generate_positions(d, parent) == positions_of_keys(d, parent, sorted_keys(d))

(***************************************************************************)
(* make_positions_dict                                                     *)
(***************************************************************************)
\* positions_df: the row labels in row order and the two columns.  A row
\* without an entry in a column holds NaN there.
EmptyTable == [index |-> <<>>, lineno |-> EmptyDict, col_offset |-> EmptyDict]

\* positions_df.loc[node, attr] = value: the row is appended when new.
set_loc(t, node, attr, value) ==
    [index      |-> IF node \in Range(t.index) THEN t.index ELSE Append(t.index, node),
     lineno     |-> IF attr = "lineno" THEN Put(t.lineno, node, value) ELSE t.lineno,
     col_offset |-> IF attr = "col_offset" THEN Put(t.col_offset, node, value)
                    ELSE t.col_offset]

\* The loop of lines 367-375 over the triples ps.
RECURSIVE collect_positions(_, _)
collect_positions(t, ps) ==
    IF ps = <<>> THEN t
    ELSE LET pos == Head(ps)
         IN  IF pos[2] = "lineno" \/ pos[2] = "col_offset"
             THEN collect_positions(set_loc(t, pos[1], pos[2], pos[3]), Tail(ps))
             ELSE collect_positions(t, Tail(ps))

\* int(positions_df['lineno'].max()): the maximum of an empty column is NaN
\* and int(NaN) raises ValueError.
lineno_max_raises(t) == DOMAIN t.lineno = {}

lineno_max_of(t) ==
    CHOOSE m \in Range(t.lineno) : \A v \in Range(t.lineno) : v <= m

\* Mutant of fill_missing: lineno_max is not incremented from one node to
\* the next.
RECURSIVE fill_missing_no_increment(_, _, _)
fill_missing_no_increment(t, ns, lineno_max) ==
    IF ns = <<>> THEN t
    ELSE fill_missing_no_increment(
             set_loc(set_loc(t, Head(ns), "lineno", lineno_max + 1),
                     Head(ns), "col_offset", 0),
             Tail(ns), lineno_max)

\* The loop of lines 378-381 over the nodes missing from the table, visited
\* in the order ns.
RECURSIVE fill_missing(_, _, _)
fill_missing(t, ns, lineno_max) ==
    IF ns = <<>> THEN t
    ELSE fill_missing(set_loc(set_loc(t, Head(ns), "lineno", lineno_max + 1),
                              Head(ns), "col_offset", 0),
                      Tail(ns), lineno_max + 1)

\* positions_df.sort(columns=['lineno', 'col_offset']): the row orders that are
\* ascending in (lineno, col_offset); rows equal in both may come in any order.
sort_orders(t) ==
    {p \in Perms(Range(t.index)) :
        \A i, j \in DOMAIN p :
            i < j => \/ t.lineno[p[i]] < t.lineno[p[j]]
                     \/ /\ t.lineno[p[i]] = t.lineno[p[j]]
                        /\ t.col_offset[p[i]] <= t.col_offset[p[j]]}

\* Mutant of rank_first_descending: method='min', equal values share a rank.
rank_min_descending(order, column) ==
    [n \in Range(order) |->
        1 + Cardinality({m \in Range(order) : column[m] > column[n]})]

\* rank(method='first', ascending=False) of one column, rows in order `order`:
\* 1 for the greatest value, equal values ranked in order of appearance.
rank_first_descending(order, column) ==
    [n \in Range(order) |->
        1 + Cardinality({m \in Range(order) : column[m] > column[n]})
          + Cardinality({i \in DOMAIN order :
                            /\ column[order[i]] = column[n]
                            /\ \E j \in DOMAIN order : order[j] = n /\ i < j})]

\* pct=True: the rank divided by the number of rows, kept as the fraction
\* <<numerator, denominator>>.
pct(rank, n) == <<rank, n>>

\* Lines 384-391 on the filled table, rows sorted in order `order`.
\* The conversion to float is exact on the integers of the table.
rank_positions(t, order) ==
    LET n   == Len(order)
        rl  == rank_first_descending(order, t.lineno)
        rc  == rank_first_descending(order, t.col_offset)
    IN  [node \in Range(order) |-> <<pct(rc[node], n), pct(rl[node], n)>>]

(***************************************************************************)
(* make_docs_dict                                                          *)
(***************************************************************************)
\* The loops `for (field, value) in parse_docstring(...): d[field] = value`.
RECURSIVE store_fields(_, _)
store_fields(d, ys) ==
    IF ys = <<>> THEN d
    ELSE store_fields(Put(d, Head(ys)[1], SetV(Head(ys)[2])), Tail(ys))

\* Lines 170-177: the FunctionDef nodes in the order ast.walk visits them.
\* The result is the dict so far and the exception raised, if any.
RECURSIVE visit_nodes(_, _)
visit_nodes(docs, nodes) ==
    IF nodes = <<>> THEN [value |-> docs, error |-> "none"]
    ELSE LET node   == Head(nodes)
             entry  == Put(Put(Put(EmptyDict, "lineno", IntV(node.lineno)),
                               "col_offset", IntV(node.col_offset)),
                           "docstring", StrV(node.docstring))
             parsed == parse_docstring(node.docstring)
         IN  IF parsed.error # "none"
             THEN [value |-> Put(docs, node.name, DictV(entry)), error |-> parsed.error]
             ELSE visit_nodes(Put(docs, node.name,
                                  DictV(store_fields(entry, parsed.yielded))),
                              Tail(nodes))

\* make_docs_dict on the parsed file t (lines 167-178).
make_docs_dict(t) ==
    LET docs   == Put(EmptyDict, "docstring", StrV(t.docstring))
        parsed == parse_docstring(t.docstring)
    IN  IF parsed.error # "none"
        THEN [value |-> docs, error |-> parsed.error]
        ELSE visit_nodes(store_fields(docs, parsed.yielded), t.body)

(***************************************************************************)
(* plot_graph                                                              *)
(***************************************************************************)
NoneV == [type |-> "NoneType", val |-> None]

is_None(v) == v.type = "NoneType"

\* Lines 427-436: the layout chosen, as the calls made to get it.
layout_events(a) ==
    IF is_None(a.fixed)
    THEN IF is_None(a.positions) THEN <<"spring_layout">> ELSE <<"use_positions">>
    ELSE (IF ~is_None(a.positions) THEN <<"warning">> ELSE <<>>) \o <<"spring_layout_fixed">>

\* Lines 439-441: the save, when a path is given.
save_events(a) == IF ~is_None(a.fpath) THEN <<"print", "savefig">> ELSE <<>>

\* Line 442: plt.show().
show_events(a) == <<"show">>

\* The calls plot_graph makes, in order.
plot_graph(a) == layout_events(a) \o <<"draw">> \o save_events(a) \o show_events(a)

(***************************************************************************)
(* Inputs.                                                                 *)
(***************************************************************************)
\* Lines a docstring may be made of.
LinePool ==
    { <<"See Also">>,
      <<"--------">>,
      <<" ", "CALLS", " ", ":", " ", "{", "f", ",", " ", "g", "}">>,
      <<"CALLED_BY", " ", ":", " ", "{", Backtick, "g", Backtick, "}">>,
      <<"RELATED", ":", "{", "CALLS", "}">>,
      <<"See Also", " ", ":", " ", "CALLS", ",", "RELATED">>,
      <<"RELATED">> }

\* '\n'.join(ls)
RECURSIVE JoinLines(_)
JoinLines(ls) ==
    IF ls = <<>> THEN <<>>
    ELSE IF Len(ls) = 1 THEN ls[1]
    ELSE ls[1] \o <<"\n">> \o JoinLines(Tail(ls))

\* The texts of n lines of the pool.
LineSeqs(n) == [1..n -> LinePool]

\* Docstrings of the files make_docs_dict is run on; None is what
\* ast.get_docstring returns for a module or function without docstring.
DocPool ==
    { None,
      <<"Notes">>,
      JoinLines(<< <<"See Also">>, <<"CALLS", ":", "{", "h", "}">>,
                   <<"RELATED", ":", "{", "}">> >>),
      JoinLines(<< <<"See Also">>, <<"CALLED_BY", ":", "{", "f", "}">> >>) }

\* What the walk gives for a FunctionDef node, but for its line number.
FunctionDefs == [name : FunctionNames, col_offset : 0..MaxColOffset, docstring : DocPool]

\* The parsed file with module docstring d and the FunctionDef nodes defs in
\* the order ast.walk visits them, the i-th of them starting at line i.
Tree(d, defs) ==
    [docstring |-> d,
     body |-> [i \in DOMAIN defs |->
                 [name |-> defs[i].name, lineno |-> i, col_offset |-> defs[i].col_offset,
                  docstring |-> defs[i].docstring]]]

\* The relationship sets of the document models: parse_see_also never
\* returns the empty set, and returns {''} for an empty declaration.  The
\* targets are the dangling '', a function of the file (f) and a name the
\* file does not define (h).
FieldValues == {{""}, {"h"}, {"f", "h"}}

\* A slot is a place for a relationship field: <<scope, field>>, the scope
\* being '' for the module or a function name.
Slots(fs) == ({""} \cup fs) \X FieldNames

\* The document model with functions fs at positions pos and the
\* relationship fields v, a function from slots to sets of targets.
DocModel(fs, pos, v) ==
    LET fields(scope) == {sl[2] : sl \in {x \in DOMAIN v : x[1] = scope}}
        entry(f) ==
            [k \in {"lineno", "col_offset", "docstring"} \cup fields(f) |->
                IF k = "lineno" THEN IntV(pos[f][1])
                ELSE IF k = "col_offset" THEN IntV(pos[f][2])
                ELSE IF k = "docstring" THEN StrV(<<"Notes">>)
                ELSE SetV(v[<<f, k>>])]
    IN  [k \in {"docstring"} \cup fields("") \cup fs |->
            IF k = "docstring" THEN StrV(None)
            ELSE IF k \in fs THEN DictV(entry(k))
            ELSE SetV(v[<<"", k>>])]

\* The choices of at most MaxFields slots of the functions fs.
SlotSets(fs) == {X \in SUBSET Slots(fs) : Cardinality(X) <= MaxFields}

\* The positions functions may be declared at.
Positions == (1..MaxLineno) \X (0..MaxColOffset)

\* Arguments of plot_graph.
PlotArgs ==
    [fixed : {NoneV, [type |-> "list", val |-> <<"f">>]},
     positions : {NoneV, DictV([n \in {"f"} |-> <<pct(1, 1), pct(1, 1)>>])},
     show_plot : BOOLEAN,
     fpath : {NoneV, StrV(<<"graph.png">>)}]

(***************************************************************************)
(* Initial states: one per entry point and input.                          *)
(***************************************************************************)
NoTree == [docstring |-> None, body |-> <<>>]
NoPlotArgs == [fixed |-> NoneV, positions |-> NoneV, show_plot |-> TRUE, fpath |-> NoneV]

Idle ==
    /\ error = "none"
    /\ lines = <<>>
    /\ catch_calls = "None"
    /\ catch_called_by = "None"
    /\ catch_related = "None"
    /\ yielded = <<>>
    /\ edges = <<>>
    /\ positions_df = EmptyTable
    /\ positions_dict = EmptyDict
    /\ events = <<>>

InitParse ==
    /\ entry_point = "parse_docstring"
    /\ pc = "parse_docstring"
    /\ \/ docstring = None
       \/ \E n \in 0..MaxLines : \E ls \in LineSeqs(n) : docstring = JoinLines(ls)
    /\ tree = NoTree /\ dobj = EmptyDict /\ graph = EmptyGraph /\ plot_args = NoPlotArgs
    /\ Idle

InitDocs ==
    /\ entry_point = "make_docs_dict"
    /\ pc = "make_docs_dict"
    /\ \E d \in DocPool : \E n \in 0..MaxFunctionDefs : \E defs \in [1..n -> FunctionDefs] :
          tree = Tree(d, defs)
    /\ docstring = None /\ dobj = EmptyDict /\ graph = EmptyGraph /\ plot_args = NoPlotArgs
    /\ Idle

InitGraph ==
    /\ entry_point = "make_graph"
    /\ pc = "make_graph"
    /\ \E fs \in SUBSET FunctionNames : \E S \in SlotSets(fs) :
          \E pos \in [fs -> Positions] : \E v \in [S -> FieldValues] :
             dobj = DocModel(fs, pos, v)
    /\ docstring = None /\ tree = NoTree /\ graph = EmptyGraph /\ plot_args = NoPlotArgs
    /\ Idle

InitPlot ==
    /\ entry_point = "plot_graph"
    /\ pc = "plot_graph"
    /\ plot_args \in PlotArgs
    /\ graph = add_edge(EmptyGraph, <<"f", "h", "CALLS">>)
    /\ docstring = None /\ tree = NoTree /\ dobj = EmptyDict
    /\ Idle

Init == InitParse \/ InitDocs \/ InitGraph \/ InitPlot

(***************************************************************************)
(* Actions.                                                                *)
(***************************************************************************)
\* First next() on the generator: line 106, then the loop is entered.
ParseStart ==
    /\ pc = "parse_docstring"
    /\ IF docstring = None
       THEN /\ pc' = "raised"
            /\ error' = "AttributeError"
            /\ UNCHANGED lines
       ELSE /\ pc' = "parse_loop"
            /\ error' = error
            /\ lines' = Split(docstring, "\n")
    /\ catch_calls' = "None"
    /\ catch_called_by' = "None"
    /\ catch_related' = "None"
    /\ UNCHANGED <<entry_point, docstring, yielded, tree, dobj, edges, graph, positions_df,
                   positions_dict, plot_args, events>>

\* One iteration of `for line in lines` (lines 110-129).
ParseLine ==
    /\ pc = "parse_loop"
    /\ lines # <<>>
    /\ LET g == loop_body(gen_state(catch_calls, catch_called_by, catch_related,
                                    yielded, FALSE), Head(lines))
       IN  /\ catch_calls' = g.catch_calls
           /\ catch_called_by' = g.catch_called_by
           /\ catch_related' = g.catch_related
           /\ yielded' = g.yielded
           /\ pc' = IF g.raised THEN "raised" ELSE "parse_loop"
           /\ error' = IF g.raised THEN "IndexError" ELSE error
    /\ lines' = Tail(lines)
    /\ UNCHANGED <<entry_point, docstring, tree, dobj, edges, graph, positions_df, positions_dict,
                   plot_args, events>>

\* The loop is exhausted: the generator ends.
ParseReturn ==
    /\ pc = "parse_loop"
    /\ lines = <<>>
    /\ pc' = "parse_done"
    /\ UNCHANGED <<entry_point, error, docstring, lines, catch_calls, catch_called_by, catch_related,
                   yielded, tree, dobj, edges, graph, positions_df, positions_dict,
                   plot_args, events>>

\* make_docs_dict(fpath), the file already parsed into `tree`.
MakeDocsDict ==
    /\ pc = "make_docs_dict"
    /\ LET r == make_docs_dict(tree)
       IN  IF r.error # "none"
           THEN /\ pc' = "raised"
                /\ error' = r.error
                /\ UNCHANGED dobj
           ELSE /\ pc' = "make_graph"
                /\ error' = error
                /\ dobj' = r.value
    /\ UNCHANGED <<entry_point, docstring, lines, catch_calls, catch_called_by, catch_related, yielded,
                   tree, edges, graph, positions_df, positions_dict, plot_args, events>>

\* make_graph(dobj) (lines 281-286).
MakeGraph ==
    /\ pc = "make_graph"
    /\ \E es \in generate_edges(dobj, "") :
        LET g == add_edges(EmptyGraph, es)
        IN  /\ edges' = es
            /\ IF remove_node_raises(g, "")
               THEN /\ pc' = "raised"
                    /\ error' = "NetworkXError"
                    /\ graph' = g
               ELSE /\ pc' = "make_positions_dict"
                    /\ error' = error
                    /\ graph' = remove_node(g, "")
    /\ UNCHANGED <<entry_point, docstring, lines, catch_calls, catch_called_by, catch_related, yielded,
                   tree, dobj, positions_df, positions_dict, plot_args, events>>

\* make_positions_dict(dobj, graph) (lines 365-392).
MakePositionsDict ==
    /\ pc = "make_positions_dict"
    /\ LET declared == collect_positions(EmptyTable, generate_positions(dobj, ""))
       IN  IF lineno_max_raises(declared)
           THEN /\ pc' = "raised"
                /\ error' = "ValueError"
                /\ positions_df' = declared
                /\ UNCHANGED positions_dict
           ELSE \E ns \in Perms(graph.nodes \ Range(declared.index)) :
                   LET filled == fill_missing(declared, ns, lineno_max_of(declared))
                   IN  \E order \in sort_orders(filled) :
                           /\ pc' = "positions_done"
                           /\ error' = error
                           /\ positions_df' = filled
                           /\ positions_dict' = rank_positions(filled, order)
    /\ UNCHANGED <<entry_point, docstring, lines, catch_calls, catch_called_by, catch_related, yielded,
                   tree, dobj, edges, graph, plot_args, events>>

\* plot_graph(graph, fixed, positions, show_plot, fpath) (lines 427-443).
PlotGraph ==
    /\ pc = "plot_graph"
    /\ events' = plot_graph(plot_args)
    /\ pc' = "plot_done"
    /\ UNCHANGED <<entry_point, error, docstring, lines, catch_calls, catch_called_by, catch_related,
                   yielded, tree, dobj, edges, graph, positions_df, positions_dict,
                   plot_args>>

Next ==
    \/ ParseStart
    \/ ParseLine
    \/ ParseReturn
    \/ MakeDocsDict
    \/ MakeGraph
    \/ MakePositionsDict
    \/ PlotGraph

Spec == Init /\ [][Next]_vars

(***************************************************************************)
(* Properties.                                                             *)
(***************************************************************************)
\* make_graph has returned a graph (it may since have been used).
MakeGraphReturned ==
    /\ entry_point \in {"make_docs_dict", "make_graph"}
    /\ \/ pc \in {"make_positions_dict", "positions_done"}
       \/ pc = "raised" /\ error = "ValueError"

\* make_graph has run, to its return or to an exception.
MakeGraphRan == MakeGraphReturned \/ (pc = "raised" /\ error = "NetworkXError")

\* make_positions_dict has run, to its return or to an exception.
MakePositionsDictRan == pc = "positions_done" \/ (pc = "raised" /\ error = "ValueError")

\* The function entries of a document model and its relationship fields.
FunctionsOf(d) == {k \in DOMAIN d : d[k].type = "dict"}
FieldsOf(d) == {k \in DOMAIN d : k \in FieldNames}

\* Every target named in a relationship set, at module or function level.
TargetsOf(d) ==
    UNION ({d[k].val : k \in FieldsOf(d)}
           \cup UNION {{d[f].val[k].val : k \in FieldsOf(d[f].val)} : f \in FunctionsOf(d)})

\* Number of pairs yielded so far for field F.
YieldCount(F) == Cardinality({i \in DOMAIN yielded : yielded[i][1] = F})

\* C1: whatever the lines of the docstring, parse_docstring yields at most
\* one pair for each of CALLS, CALLED_BY and RELATED.
C1_AtMostOnePairPerField == \A F \in FieldNames : YieldCount(F) <= 1

\* The module or the function defined last under its name has no docstring.
ModuleDocstringAbsent(t) == t.docstring = None
AbsentFunctions(t) ==
    {t.body[i].name : i \in {j \in DOMAIN t.body :
        /\ t.body[j].docstring = None
        /\ \A k \in DOMAIN t.body : k > j => t.body[k].name # t.body[j].name}}

\* C2: an absent docstring is not an error: parse_docstring(None) yields no
\* pair and raises nothing, and make_docs_dict on a file whose module or
\* functions lack a docstring returns a model in which these entries hold
\* their docstring (and position) keys and no relationship field.
C2_AbsentDocstringIsNotAnError ==
    [][ /\ (pc = "parse_docstring" /\ docstring = None) => pc' # "raised"
        /\ (pc = "make_docs_dict"
              /\ (ModuleDocstringAbsent(tree) \/ AbsentFunctions(tree) # {}))
           => /\ pc' = "make_graph"
              /\ ModuleDocstringAbsent(tree)
                    => "docstring" \in DOMAIN dobj' /\ FieldsOf(dobj') = {}
              /\ \A f \in AbsentFunctions(tree) :
                    DOMAIN dobj'[f].val = {"docstring", "lineno", "col_offset"} ]_vars

\* No edge of the sequence es has the root '' as source or target.
RootHasNoIncidentEdge(es) == \A i \in DOMAIN es : es[i][1] # "" /\ es[i][2] # ""

\* C3: when the placeholder root has no incident edge, make_graph raises no
\* error and returns the graph built from the edges.
C3_RootWithoutEdgesIsNoError ==
    (MakeGraphRan /\ RootHasNoIncidentEdge(edges))
        => /\ pc # "raised"
           /\ graph = add_edges(EmptyGraph, edges)

\* C4: whenever make_graph returns, the nodes of the graph are exactly the
\* function names and the relationship targets of the model, the empty
\* string excepted; no node and no end of an edge is the empty string.
C4_NodesAreFunctionsAndTargets ==
    MakeGraphReturned
        => /\ graph.nodes = (FunctionsOf(dobj) \cup TargetsOf(dobj)) \ {""}
           /\ "" \notin graph.nodes
           /\ \A i \in DOMAIN graph.edges : graph.edges[i][1] # "" /\ graph.edges[i][2] # ""

\* C4 witness: make_graph returned a graph with nodes for a model holding a
\* relationship set {''} and a function entry.
C4_Witness ==
    /\ MakeGraphReturned
    /\ "" \in TargetsOf(dobj)
    /\ FunctionsOf(dobj) # {}
    /\ \E k \in FieldsOf(dobj) : dobj[k].val = {""}
    /\ Cardinality(graph.nodes) >= 2

\* C5: for every model for which make_graph returned a graph,
\* make_positions_dict returns a mapping whose keys are exactly the nodes of
\* the graph, each mapped to a coordinate of two elements.
C5_EveryNodeHasAPosition ==
    MakePositionsDictRan
        => /\ pc = "positions_done"
           /\ DOMAIN positions_dict = graph.nodes
           /\ \A n \in DOMAIN positions_dict : Len(positions_dict[n]) = 2

\* The triples generate_edges is to yield for the model d with root ''.
ExpectedEdges(d) ==
    {<<"", f, "CONTAINS">> : f \in FunctionsOf(d)}
    \cup UNION {{<<"", t, k>> : t \in d[k].val} : k \in FieldsOf(d)}
    \cup UNION {UNION {{<<f, t, k>> : t \in d[f].val[k].val} :
                         k \in FieldsOf(d[f].val)} : f \in FunctionsOf(d)}

\* Place of a key in sorted order.
KeyRank(k) == CHOOSE i \in DOMAIN KeyOrder : KeyOrder[i] = k

\* The top-level key an edge comes from, and the key within a function entry
\* (0 for the CONTAINS edge, which precedes the entry's own edges).
TopKey(e) == IF e[1] # "" THEN e[1] ELSE IF e[3] = "CONTAINS" THEN e[2] ELSE e[3]
SubRank(e) == IF e[1] = "" THEN 0 ELSE KeyRank(e[3])

\* C6: generate_edges with parent '' yields exactly one CONTAINS edge per
\* function and one edge per target of each relationship set, keys in sorted
\* order, each function's CONTAINS edge before the edges leaving it; a single
\* function f with CALLS = {h} gives (root, f, CONTAINS), (f, h, CALLS).
C6_EdgesExactAndOrdered ==
    MakeGraphRan
        => /\ Range(edges) = ExpectedEdges(dobj)
           /\ Len(edges) = Cardinality(ExpectedEdges(dobj))
           /\ \A i, j \in DOMAIN edges :
                 i < j => \/ KeyRank(TopKey(edges[i])) < KeyRank(TopKey(edges[j]))
                          \/ /\ TopKey(edges[i]) = TopKey(edges[j])
                             /\ SubRank(edges[i]) <= SubRank(edges[j])
           /\ \A i \in DOMAIN edges :
                 edges[i][1] \in FunctionsOf(dobj)
                    => \E j \in 1..(i - 1) : edges[j] = <<"", edges[i][1], "CONTAINS">>
           /\ (/\ DOMAIN dobj = {"docstring", "f"}
               /\ DOMAIN dobj["f"].val = {"docstring", "lineno", "col_offset", "CALLS"}
               /\ dobj["f"].val["CALLS"].val = {"h"})
                 => edges = << <<"", "f", "CONTAINS">>, <<"f", "h", "CALLS">> >>

\* C6 witness: edges were generated for a model with two module-level fields
\* and two function entries.
C6_Witness ==
    /\ MakeGraphRan
    /\ Cardinality(FunctionsOf(dobj)) = 2
    /\ Cardinality(FieldsOf(dobj)) = 2
    /\ Len(edges) >= 4

\* C6 witness of the single-function case: f with CALLS = {h}.
C6_WitnessSingleFunction ==
    /\ MakeGraphRan
    /\ DOMAIN dobj = {"docstring", "f"}
    /\ DOMAIN dobj["f"].val = {"docstring", "lineno", "col_offset", "CALLS"}
    /\ dobj["f"].val["CALLS"].val = {"h"}

\* The graph nodes without a declared position, and the declared line numbers.
UndeclaredNodes == graph.nodes \ FunctionsOf(dobj)
DeclaredLinenos == {dobj[f].val["lineno"].val : f \in FunctionsOf(dobj)}

\* C7: after the fill, every node without a declared position has a line
\* number above every declared one, lineno_max + k for the k-th node
\* assigned (so pairwise distinct), and column 0; declared positions are
\* unchanged.
C7_SyntheticLinenosAboveDeclared ==
    pc = "positions_done"
        => /\ \A n \in UndeclaredNodes :
                 /\ \A l \in DeclaredLinenos : positions_df.lineno[n] > l
                 /\ positions_df.col_offset[n] = 0
           /\ \A n, m \in UndeclaredNodes :
                 n # m => positions_df.lineno[n] # positions_df.lineno[m]
           /\ \A i \in DOMAIN positions_df.index :
                 i > Cardinality(FunctionsOf(dobj))
                    => /\ positions_df.index[i] \in UndeclaredNodes
                       /\ \E l \in DeclaredLinenos :
                             /\ \A l2 \in DeclaredLinenos : l2 <= l
                             /\ positions_df.lineno[positions_df.index[i]]
                                   = l + (i - Cardinality(FunctionsOf(dobj)))
           /\ \A f \in FunctionsOf(dobj) :
                 /\ positions_df.lineno[f] = dobj[f].val["lineno"].val
                 /\ positions_df.col_offset[f] = dobj[f].val["col_offset"].val

\* C7 witness: two nodes without declared position were assigned line numbers
\* next to a declared function.
C7_Witness ==
    /\ pc = "positions_done"
    /\ Cardinality(UndeclaredNodes) >= 2
    /\ FunctionsOf(dobj) # {}

\* C8: the interactive display is opened if and only if the show flag is
\* true, and then only after the save.
C8_ShowOnlyWhenFlagged ==
    pc = "plot_done"
        => /\ Contains(events, "show") <=> plot_args.show_plot
           /\ \A i, j \in DOMAIN events :
                 (events[i] = "show" /\ events[j] = "savefig") => j < i

\* The flag of field F, now and after the step.
FlagOf(F) ==
    IF F = "CALLS" THEN catch_calls
    ELSE IF F = "CALLED_BY" THEN catch_called_by ELSE catch_related
FlagOfNext(F) ==
    IF F = "CALLS" THEN catch_calls'
    ELSE IF F = "CALLED_BY" THEN catch_called_by' ELSE catch_related'

\* C9: the three fields are matched independently: a line (not a header)
\* that contains the name of F while the flag of F is armed is yielded as
\* (F, parsed set) and disarms the flag of F, whatever the other flags and
\* the other field names in the line; flags of fields not named in the line
\* are left alone.
C9_FieldsMatchedIndependently ==
    [][ \A F \in FieldNames :
          (/\ pc = "parse_loop"
           /\ lines # <<>>
           /\ ~Contains(Head(lines), "See Also")
           /\ Contains(Head(lines), F)
           /\ Truthy(FlagOf(F))
           /\ ~parse_see_also_raises(Head(lines)))
            => /\ \E i \in (DOMAIN yielded') \ (DOMAIN yielded) :
                     yielded'[i] = <<F, parse_see_also(Head(lines))>>
               /\ FlagOfNext(F) = "False"
               /\ \A G \in FieldNames :
                     ~Contains(Head(lines), G) => FlagOfNext(G) = FlagOf(G) ]_vars

\* The numerators of the coordinates of node n: x from the column rank, y
\* from the line rank.
XRank(n) == positions_dict[n][1][1]
YRank(n) == positions_dict[n][2][1]

====
